---------------------------- MODULE Spec2Model ----------------------------
(***************************************************************************)
(* A model of the ha-chan Discord bot (src/main.py): the category          *)
(* resolver, the mention scanner, the report formatter, the agent gateway  *)
(* and the two slash commands that bind them.                              *)
(*                                                                         *)
(* Text is modelled by TLA+ strings, one character per Python character.   *)
(* The module is written in ASCII, so the non-ASCII characters of the      *)
(* source's literals are written with stand-ins (see CodePoint):           *)
(*    ~ U+00E2   ^ U+20AC   $ U+00A2   % U+201D   & U+00A6   + U+2020      *)
(*    = U+00B3   ? U+00F0   | U+0178   { U+00A7   } U+00B5   ' U+00B2      *)
(*    \ U+0060 (the backquote, which a TLA+ string cannot hold)            *)
(*                                                                         *)
(* Where an operator reads a computed value several times, the value is    *)
(* bound once, as x in  CHOOSE r \in {e(x) : x \in {v}} : TRUE,  which is    *)
(* e(v) with v computed a single time.                                     *)
(***************************************************************************)
EXTENDS Integers, Sequences, FiniteSets, TLC

VARIABLES
    call,      \* a direct call of a helper: [fn, args, pc, ret]
    guild,     \* the guild the interactions come from (0: a direct message)
    inv,       \* the command invocations: id -> the coroutine's frame
    loop,      \* the invocation that holds the event loop's thread (0: free)
    fetched    \* the history requests sent to the platform, in order

vars == <<call, guild, inv, loop, fetched>>

None == "None"

(***************************************************************************)
(* Python's str operations                                                 *)
(***************************************************************************)

\* s[i] (1-based)
CharAt(s, i) == SubSeq(s, i, i)

RECURSIVE Repeat(_, _)
\* s * n
Repeat(s, n) ==
    IF n <= 0 THEN ""
    ELSE IF n = 1 THEN s
    ELSE LET h == Repeat(s, n \div 2)
         IN  IF n % 2 = 0 THEN h \o h ELSE h \o h \o s

Whitespace == {" ", "\t", "\n"}

RECURSIVE LeadingSpaces(_, _)
LeadingSpaces(s, k) ==
    IF k < Len(s) /\ CharAt(s, k + 1) \in Whitespace
    THEN LeadingSpaces(s, k + 1) ELSE k

RECURSIVE TrailingSpaces(_, _)
TrailingSpaces(s, k) ==
    IF k < Len(s) /\ CharAt(s, Len(s) - k) \in Whitespace
    THEN TrailingSpaces(s, k + 1) ELSE k

\* str.strip()
Strip(s) ==
    LET a == LeadingSpaces(s, 0)
    IN  IF a = Len(s) THEN ""
        ELSE SubSeq(s, a + 1, Len(s) - TrailingSpaces(s, 0))

RECURSIVE Join(_, _)
\* sep.join(parts)
Join(sep, parts) ==
    IF Len(parts) = 0 THEN ""
    ELSE IF Len(parts) = 1 THEN parts[1]
    ELSE LET m == Len(parts) \div 2
         IN  Join(sep, SubSeq(parts, 1, m)) \o sep
               \o Join(sep, SubSeq(parts, m + 1, Len(parts)))

DecimalDigits == "0123456789"

RECURSIVE NatStr(_)
NatStr(n) ==
    IF n < 10 THEN CharAt(DecimalDigits, n + 1)
    ELSE NatStr(n \div 10) \o CharAt(DecimalDigits, (n % 10) + 1)

\* str(n) of an integer
ToStr(n) == IF n < 0 THEN "-" \o NatStr(0 - n) ELSE NatStr(n)

\* sub in s
Contains(s, sub) ==
    \E k \in 1..(Len(s) - Len(sub) + 1) : SubSeq(s, k, k + Len(sub) - 1) = sub

\* s.startswith(p)
StartsWith(s, p) == Len(s) >= Len(p) /\ SubSeq(s, 1, Len(p)) = p

(***************************************************************************)
(* Report formatter                                                        *)
(***************************************************************************)

EMBED_FIELD_LIMIT == 1024
EMBED_MAX_FIELDS == 25

\* the (name, value) pair the buffer is emitted as
Field(prefix, fields, buf) ==
    <<prefix \o " " \o ToStr(Len(fields) + 1), Join("\n", buf)>>

\* one turn of the for loop of chunk_lines_into_fields, on the loop's state
\* st = [fields, buf, buf_len]
ChunkStep(st, raw, prefix) ==
    LET line == Strip(raw)
        add_len == Len(line) + (IF Len(st.buf) > 0 THEN 1 ELSE 0)
    IN  IF line = "" THEN st
        ELSE IF st.buf_len + add_len > EMBED_FIELD_LIMIT
        THEN [fields |-> Append(st.fields, Field(prefix, st.fields, st.buf)),
              buf |-> <<line>>, buf_len |-> Len(line)]
        ELSE [fields |-> st.fields, buf |-> Append(st.buf, line),
              buf_len |-> st.buf_len + add_len]

RECURSIVE ChunkLoop(_, _, _, _, _)
\* the for loop over lines[lo..hi], in order, from state st.  The range is
\* halved, and the state after the first half is a value before the second
\* half is entered, only to keep the evaluation shallow
ChunkLoop(st, lines, lo, hi, prefix) ==
    IF lo > hi THEN st
    ELSE IF lo = hi THEN ChunkStep(st, lines[lo], prefix)
    ELSE LET mid == (lo + hi) \div 2
         IN  CHOOSE after \in {ChunkLoop(left, lines, mid + 1, hi, prefix) :
                                  left \in {ChunkLoop(st, lines, lo, mid, prefix)}} :
                 TRUE

chunk_lines_into_fields(lines, field_name_prefix) ==
    CHOOSE fields \in
        {IF Len(st.buf) > 0
         THEN Append(st.fields, Field(field_name_prefix, st.fields, st.buf))
         ELSE st.fields :
            st \in {ChunkLoop([fields |-> <<>>, buf |-> <<>>, buf_len |-> 0],
                              lines, 1, Len(lines), field_name_prefix)}} :
        TRUE

(***************************************************************************)
(* UTF-8, as str.encode("utf-8") and bytes.decode("utf-8") compute it      *)
(***************************************************************************)

\* the printable ASCII characters from 32 to 95, in code point order
AsciiLow ==
    " !\"#$%&'()*+,-./0123456789:;<=>?@ABCDEFGHIJKLMNOPQRSTUVWXYZ[\\]^_"

\* the printable ASCII characters from 97 to 126, in code point order
AsciiHigh == "abcdefghijklmnopqrstuvwxyz{|}~"

\* the characters written with a stand-in, and their code points
StandIn ==
    [c \in {"~", "^", "$", "%", "&", "+", "=", "?", "|", "{", "}", "'", "\\"} |->
       CASE c = "~" -> 226   [] c = "^" -> 8364  [] c = "$" -> 162
         [] c = "%" -> 8221  [] c = "&" -> 166   [] c = "+" -> 8224
         [] c = "=" -> 179   [] c = "?" -> 240   [] c = "|" -> 376
         [] c = "{" -> 167   [] c = "}" -> 181   [] c = "'" -> 178
         [] c = "\\" -> 96]

Chars ==
    {CharAt(AsciiLow, k) : k \in 1..Len(AsciiLow)}
      \cup {CharAt(AsciiHigh, k) : k \in 1..Len(AsciiHigh)} \cup {"\n", "\t"}

\* ord(c)
CodePoint ==
    [c \in Chars |->
       IF c \in DOMAIN StandIn THEN StandIn[c]
       ELSE IF c = "\n" THEN 10
       ELSE IF c = "\t" THEN 9
       ELSE IF \E k \in 1..Len(AsciiLow) : CharAt(AsciiLow, k) = c
       THEN 31 + CHOOSE k \in 1..Len(AsciiLow) : CharAt(AsciiLow, k) = c
       ELSE 96 + CHOOSE k \in 1..Len(AsciiHigh) : CharAt(AsciiHigh, k) = c]

\* chr(cp), on the code points of Chars
CharOf == [cp \in {CodePoint[c] : c \in Chars} |->
              CHOOSE c \in Chars : CodePoint[c] = cp]

EncodeChar(c) ==
    LET cp == CodePoint[c]
    IN  IF cp < 128 THEN <<cp>>
        ELSE IF cp < 2048 THEN <<192 + (cp \div 64), 128 + (cp % 64)>>
        ELSE IF cp < 65536
        THEN <<224 + (cp \div 4096), 128 + ((cp \div 64) % 64), 128 + (cp % 64)>>
        ELSE <<240 + (cp \div 262144), 128 + ((cp \div 4096) % 64),
               128 + ((cp \div 64) % 64), 128 + (cp % 64)>>

RECURSIVE Utf8Encode(_)
\* s.encode("utf-8"): the bytes, character by character
Utf8Encode(s) ==
    IF Len(s) = 0 THEN <<>>
    ELSE IF Len(s) = 1 THEN EncodeChar(s)
    ELSE LET m == Len(s) \div 2
         IN  Utf8Encode(SubSeq(s, 1, m)) \o Utf8Encode(SubSeq(s, m + 1, Len(s)))

\* the length of the sequence a lead byte opens
SeqLen(b) == IF b < 128 THEN 1 ELSE IF b < 224 THEN 2 ELSE IF b < 240 THEN 3 ELSE 4

DecodeChar(bs) ==
    LET cp == IF Len(bs) = 1 THEN bs[1]
              ELSE IF Len(bs) = 2 THEN (bs[1] - 192) * 64 + (bs[2] - 128)
              ELSE IF Len(bs) = 3
              THEN (bs[1] - 224) * 4096 + (bs[2] - 128) * 64 + (bs[3] - 128)
              ELSE (bs[1] - 240) * 262144 + (bs[2] - 128) * 4096
                     + (bs[3] - 128) * 64 + (bs[4] - 128)
    IN  CharOf[cp]

RECURSIVE NextLead(_, _)
\* the first index >= k of bs that is not a continuation byte (Len(bs)+1: none)
NextLead(bs, k) ==
    IF k <= Len(bs) /\ bs[k] >= 128 /\ bs[k] < 192 THEN NextLead(bs, k + 1) ELSE k

RECURSIVE Utf8Decode(_)
\* bs.decode("utf-8") of well-formed bytes
Utf8Decode(bs) ==
    IF Len(bs) = 0 THEN ""
    ELSE IF Len(bs) = SeqLen(bs[1]) THEN DecodeChar(bs)
    ELSE LET mid == NextLead(bs, (Len(bs) \div 2) + 1)
             cut == IF mid > Len(bs) \/ mid <= SeqLen(bs[1])
                    THEN SeqLen(bs[1]) + 1 ELSE mid
         IN  Utf8Decode(SubSeq(bs, 1, cut - 1))
               \o Utf8Decode(SubSeq(bs, cut, Len(bs)))

(***************************************************************************)
(* More of Python's str: split, lower, capitalize, isdigit, int            *)
(***************************************************************************)

RECURSIVE SplitFrom(_, _, _, _)
\* s.split(sep) for a one-character sep: the pieces of s[k..], cur being the
\* piece under construction
SplitFrom(s, sep, k, cur) ==
    IF k > Len(s) THEN <<cur>>
    ELSE IF CharAt(s, k) = sep THEN <<cur>> \o SplitFrom(s, sep, k + 1, "")
    ELSE SplitFrom(s, sep, k + 1, cur \o CharAt(s, k))

Split(s, sep) == SplitFrom(s, sep, 1, "")

UpperCase == "ABCDEFGHIJKLMNOPQRSTUVWXYZ"
LowerCase == "abcdefghijklmnopqrstuvwxyz"

LowerChar(c) ==
    IF \E k \in 1..26 : CharAt(UpperCase, k) = c
    THEN CharAt(LowerCase, CHOOSE k \in 1..26 : CharAt(UpperCase, k) = c)
    ELSE c

UpperChar(c) ==
    IF \E k \in 1..26 : CharAt(LowerCase, k) = c
    THEN CharAt(UpperCase, CHOOSE k \in 1..26 : CharAt(LowerCase, k) = c)
    ELSE c

RECURSIVE Lower(_)
\* s.lower()
Lower(s) == IF Len(s) = 0 THEN "" ELSE LowerChar(Head(s)) \o Lower(Tail(s))

\* s.capitalize()
Capitalize(s) == IF Len(s) = 0 THEN "" ELSE UpperChar(Head(s)) \o Lower(Tail(s))

\* the characters int() reads as decimal digits
IsDecimalChar(c) == \E k \in 1..10 : CharAt(DecimalDigits, k) = c

\* the characters str.isdigit() accepts: the decimal digits, and digits such
\* as SUPERSCRIPT TWO (written ') that are no decimal digits
IsDigitChar(c) == IsDecimalChar(c) \/ c = "'"

\* p.isdigit()
IsDigit(p) == Len(p) > 0 /\ \A k \in 1..Len(p) : IsDigitChar(CharAt(p, k))

RECURSIVE StripZeros(_)
StripZeros(p) == IF Len(p) > 1 /\ Head(p) = "0" THEN StripZeros(Tail(p)) ELSE p

\* int(p): the number as its canonical decimal numeral (identifiers are 64-bit
\* snowflakes, so numbers are kept as numerals), or ValueError
ParseInt(p) ==
    IF Len(p) > 0 /\ \A k \in 1..Len(p) : IsDecimalChar(CharAt(p, k))
    THEN [exc |-> None, value |-> StripZeros(p)]
    ELSE [exc |-> "ValueError", value |-> None]

(***************************************************************************)
(* The platform's objects (discord.py), as far as the bot reads them.      *)
(* A guild: [id, categories, others]; a category: [id, name,               *)
(* text_channels]; a text channel: [id, history, error, error_page,        *)
(* threads]; a thread: [id, locked, history, error, error_page]; a         *)
(* message: [id, created, mentions, content].  history is in the order     *)
(* the platform yields it.                                                 *)
(***************************************************************************)

\* guild.get_channel(id): the category's position, "other" for a channel that
\* is no category, None when the guild has no such channel
get_channel(g, id) ==
    IF \E k \in 1..Len(g.categories) : g.categories[k].id = id
    THEN [type |-> "CategoryChannel",
          cat |-> CHOOSE k \in 1..Len(g.categories) : g.categories[k].id = id]
    ELSE IF id \in g.others \/ \E k \in 1..Len(g.categories) :
                 \E h \in 1..Len(g.categories[k].text_channels) :
                     g.categories[k].text_channels[h].id = id
    THEN [type |-> "other", cat |-> 0]
    ELSE [type |-> None, cat |-> 0]

(***************************************************************************)
(* Category resolver.  Categories are referred to by their position in     *)
(* guild.categories; the set seen is the set of the members of out.        *)
(***************************************************************************)

RECURSIVE StripAll(_)
StripAll(ps) == IF Len(ps) = 0 THEN <<>> ELSE <<Strip(Head(ps))>> \o StripAll(Tail(ps))

\* [p.strip() for p in spec.split(",") if p.strip()]
Parts(spec) == SelectSeq(StripAll(Split(spec, ",")), LAMBDA p : p # "")

SeqRange(q) == {q[k] : k \in 1..Len(q)}

RECURSIVE IdPass(_, _, _, _)
\* first pass: the tokens parts[k..] that are digits, looked up as identifiers
IdPass(g, parts, k, out) ==
    IF k > Len(parts) THEN [exc |-> None, out |-> out]
    ELSE IF ~IsDigit(parts[k]) THEN IdPass(g, parts, k + 1, out)
    ELSE LET n == ParseInt(parts[k])
         IN  IF n.exc # None THEN [exc |-> n.exc, out |-> out]
             ELSE LET ch == get_channel(g, n.value)
                  IN  IF ch.type = "CategoryChannel" /\ ch.cat \notin SeqRange(out)
                      THEN IdPass(g, parts, k + 1, Append(out, ch.cat))
                      ELSE IdPass(g, parts, k + 1, out)

RECURSIVE NameMatches(_, _, _, _)
\* the inner loop of the second pass: the categories c.. named p, unseen
NameMatches(g, p, c, out) ==
    IF c > Len(g.categories) THEN out
    ELSE IF Lower(g.categories[c].name) = Lower(p) /\ c \notin SeqRange(out)
    THEN NameMatches(g, p, c + 1, Append(out, c))
    ELSE NameMatches(g, p, c + 1, out)

RECURSIVE NamePass(_, _, _, _)
\* second pass: the tokens parts[k..] that are no digits, matched by name
NamePass(g, parts, k, out) ==
    IF k > Len(parts) THEN out
    ELSE IF IsDigit(parts[k]) THEN NamePass(g, parts, k + 1, out)
    ELSE NamePass(g, parts, k + 1, NameMatches(g, parts[k], 1, out))

\* [exc, out]: the exception raised (None: a normal return) and the list returned
parse_category_spec(g, spec) ==
    IF spec = "" THEN [exc |-> None, out |-> <<>>]
    ELSE CHOOSE r \in
             {LET ids == IdPass(g, parts, 1, <<>>)
              IN  IF ids.exc # None THEN [exc |-> ids.exc, out |-> <<>>]
                  ELSE [exc |-> None, out |-> NamePass(g, parts, 1, ids.out)] :
                 parts \in {Parts(spec)}} :
             TRUE

(***************************************************************************)
(* History scanner                                                         *)
(***************************************************************************)

\* discord.py retrieves a history in requests of at most 100 messages
PageSize == 100

Min(a, b) == IF a < b THEN a ELSE b
Max(a, b) == IF a > b THEN a ELSE b

\* the messages of the source created after `after`, in the order yielded
Later(source, after) == SelectSeq(source.history, LAMBDA m : m.created > after)

\* the messages source.history(limit=limit, after=after) yields when no
\* request fails: the first limit messages created after `after`
Eligible(source, limit, after) ==
    SubSeq(Later(source, after), 1, Min(Max(limit, 0), Len(Later(source, after))))

\* whether the iteration raises: the request for page source.error_page is
\* sent (the limit is not used up and every page before came back full),
\* and fails
Raises(source, limit, after) ==
    /\ source.error # None
    /\ limit > (source.error_page - 1) * PageSize
    /\ Len(Later(source, after)) >= (source.error_page - 1) * PageSize

\* the messages the iteration yields before it ends or raises
Yielded(source, limit, after) ==
    IF Raises(source, limit, after)
    THEN SubSeq(Later(source, after), 1, (source.error_page - 1) * PageSize)
    ELSE Eligible(source, limit, after)

\* user in msg.mentions or f"<@{user.id}>" in msg.content
\*                      or f"<@!{user.id}>" in msg.content
IsMention(user, msg) ==
    \/ user.id \in msg.mentions
    \/ Contains(msg.content, "<@" \o user.id \o ">")
    \/ Contains(msg.content, "<@!" \o user.id \o ">")

\* the hits list is filled while the history is iterated, and returned also
\* when the iteration raised: Forbidden and HTTPException are passed over
search_channel_for_mentions(channel, user, after_dt, per_channel_limit) ==
    SelectSeq(Yielded(channel, per_channel_limit, after_dt),
              LAMBDA m : IsMention(user, m))

\* the hits of one thread: the messages of its history that mention the user
ThreadHits(th, user, after_dt, per_thread_limit) ==
    SelectSeq(Yielded(th, per_thread_limit, after_dt), LAMBDA m : IsMention(user, m))

\* the loop of _search_active_threads_for_mentions over channel.threads: a
\* locked thread is skipped, a thread whose history raises is dropped with the
\* hits it had, a thread without hits is left out.  The (thread, hits) pairs,
\* a thread being its position in channel.threads
search_active_threads_for_mentions(channel, user, after_dt, per_thread_limit) ==
    LET kept == SelectSeq([k \in 1..Len(channel.threads) |-> k],
                   LAMBDA k :
                      /\ ~channel.threads[k].locked
                      /\ ~Raises(channel.threads[k], per_thread_limit, after_dt)
                      /\ Len(ThreadHits(channel.threads[k], user, after_dt,
                                        per_thread_limit)) > 0)
    IN  [j \in 1..Len(kept) |->
           <<kept[j], ThreadHits(channel.threads[kept[j]], user, after_dt,
                                 per_thread_limit)>>]

\* every thread of the channel, the locked ones too
AllThreads(channel) == [k \in 1..Len(channel.threads) |-> k]

\* the threads whose history is requested
ThreadsFetched(channel) ==
    SelectSeq([k \in 1..Len(channel.threads) |-> k],
              LAMBDA k : ~channel.threads[k].locked)

(***************************************************************************)
(* find-collabs: the lines of the report                                   *)
(***************************************************************************)

MAX_LINES == 40

\* Message.jump_url
jump_url(g, channel_id, m) ==
    "https://discord.com/channels/" \o g.id \o "/" \o channel_id \o "/" \o m.id

\* ", ".join(f"[link]({m.jump_url})" for m in hits[:3])
SampleLinks(g, channel_id, hits) ==
    Join(", ", [k \in 1..Min(3, Len(hits)) |->
                  "[link](" \o jump_url(g, channel_id, hits[k]) \o ")"])

CategoryLine(cat) == "**Category:** " \o cat.name \o " (\\" \o cat.id \o "\\)"

ChannelLine(g, ch, hits) ==
    "~^$ <#" \o ch.id \o "> ~^% " \o ToStr(Len(hits)) \o " mention(s): "
      \o SampleLinks(g, ch.id, hits) \o (IF Len(hits) > 3 THEN " ~^&" ELSE "")

ThreadLine(g, th, th_msgs) ==
    "   ~+= ?|{} <#" \o th.id \o "> ~^% " \o ToStr(Len(th_msgs))
      \o " mention(s): " \o SampleLinks(g, th.id, th_msgs)
      \o (IF Len(th_msgs) > 3 THEN " ~^&" ELSE "")

TruncatedLine == "_Output truncated; see attachment for the full list._"

RECURSIVE SumLen(_)
\* the sum of len(th_msgs) over the (thread, th_msgs) pairs
SumLen(pairs) ==
    IF Len(pairs) = 0 THEN 0
    ELSE IF Len(pairs) = 1 THEN Len(pairs[1][2])
    ELSE LET m == Len(pairs) \div 2
         IN  SumLen(SubSeq(pairs, 1, m)) + SumLen(SubSeq(pairs, m + 1, Len(pairs)))

\* the history request of invocation i for a channel or a thread
HistoryRequest(i, kind, id, limit) == [inv |-> i, kind |-> kind, id |-> id, limit |-> limit]

\* the body of the loop over cat.text_channels for channel ch of category cat,
\* run by invocation i with frame f: [f, requests], the frame with lines,
\* total_hits and cat_header_added updated (stopped: the loop is left by
\* break), and the history requests sent, in order
ScanBody(i, f, g, cat, ch) ==
    LET limit == f.args.per_channel_limit
        own == <<HistoryRequest(i, "channel", ch.id, limit)>>
        header == IF f.cat_header_added THEN <<>> ELSE <<CategoryLine(cat)>>
        ths == IF f.args.include_threads THEN ThreadsFetched(ch) ELSE <<>>
        Body(hits, thread_hits) ==
            LET thread_lines == [k \in 1..Len(thread_hits) |->
                                   ThreadLine(g, ch.threads[thread_hits[k][1]],
                                              thread_hits[k][2])]
                lines == f.lines \o header \o <<ChannelLine(g, ch, hits)>>
                           \o thread_lines
            IN  [f |-> [f EXCEPT
                          !.total_hits = @ + Len(hits) + SumLen(thread_hits),
                          !.cat_header_added = TRUE,
                          !.lines = IF Len(lines) >= MAX_LINES
                                    THEN Append(lines, TruncatedLine) ELSE lines,
                          !.stopped = Len(lines) >= MAX_LINES],
                 requests |-> own \o [k \in 1..Len(ths) |->
                     HistoryRequest(i, "thread", ch.threads[ths[k]].id,
                                    Min(limit, 100))]]
    IN  CHOOSE r \in
            {IF Len(hits) = 0 THEN [f |-> f, requests |-> own]
             ELSE CHOOSE r2 \in
                     {Body(hits, thread_hits) :
                         thread_hits \in
                            {IF f.args.include_threads
                             THEN search_active_threads_for_mentions(
                                      ch, f.user, f.after_dt, Min(limit, 100))
                             ELSE <<>>}} : TRUE :
                hits \in {search_channel_for_mentions(ch, f.user, f.after_dt, limit)}} :
            TRUE

RECURSIVE Seek(_, _, _, _)
\* the next channel of the two loops at or after channel h of the c-th target
\* category, <<0, 0>> when the loops are over
Seek(g, targets, c, h) ==
    IF c > Len(targets) THEN <<0, 0>>
    ELSE IF h <= Len(g.categories[targets[c]].text_channels) THEN <<c, h>>
    ELSE Seek(g, targets, c + 1, 1)

\* datetime.now(timezone.utc) - timedelta(days=max(0, days)), time counted in
\* days from datetime.min (day 1): timedelta takes at most 999999999 days, and
\* no datetime lies before datetime.min
TimeWindow(now, days) ==
    IF Max(0, days) > 999999999 \/ now - Max(0, days) < 1
    THEN [exc |-> "OverflowError", value |-> 0]
    ELSE [exc |-> None, value |-> now - Max(0, days)]

(***************************************************************************)
(* The follow-up responses                                                 *)
(***************************************************************************)

NoEmbed == [title |-> None, description |-> None, fields |-> <<>>]
NoFile == [filename |-> None, data |-> <<>>]

Message(content, ephemeral) ==
    [content |-> content, embed |-> NoEmbed, file |-> NoFile, ephemeral |-> ephemeral]

\* interaction.followup.send(...): the response is recorded and the handler,
\* which sends as its last statement or returns right after, is over
Send(f, response) == [f EXCEPT !.sent = Append(@, response), !.pc = "responded"]

\* an exception that no handler of the command catches ends the invocation
Raise(f, exc) == [f EXCEPT !.exc = exc, !.pc = "raised"]

NoGuildText == "This command must be used in a server."
NoCategoryText ==
    "I couldn't match any categories from your input. "
      \o "Provide comma-separated category names or IDs."
NoPingsText == "No pings found for you in the selected categories and time window."
NoteText ==
    "Output truncated in embed; see attached \\mentions_report.txt\\ for the full list."

\* a report that keeps every chunk inline and attaches nothing
InlineResponse(f, fields) ==
    [content |-> None,
     embed |-> [title |-> "Mentions Found",
                description |-> "Found **" \o ToStr(f.total_hits) \o "** mention(s).",
                fields |-> fields],
     file |-> NoFile,
     ephemeral |-> TRUE]

\* the embed and the file of the report of find_collabs, from `fields`
ReportResponse(f, fields) ==
    LET description ==
            "Found **" \o ToStr(f.total_hits) \o "** mention(s) for <@" \o f.user.id
              \o "> in the last **" \o ToStr(f.args.days) \o "** day(s)."
        over == Len(fields) >= EMBED_MAX_FIELDS
        kept == Min(10, EMBED_MAX_FIELDS - 1)
        full_text == Join("\n", f.lines)
    IN  [content |-> None,
         embed |-> [title |-> "Mentions Found", description |-> description,
                    fields |-> IF over
                               THEN Append(SubSeq(fields, 1, Min(kept, Len(fields))),
                                           <<"Note", NoteText>>)
                               ELSE fields],
         file |-> IF over
                  THEN [filename |-> "mentions_report.txt",
                        data |-> Utf8Encode(full_text)]
                  ELSE NoFile,
         ephemeral |-> TRUE]

(***************************************************************************)
(* Agent gateway                                                           *)
(***************************************************************************)

\* str(x) of what the agent may hand back
PyStr(x) == IF x.type = "NoneType" THEN "None" ELSE x.value

\* run_agent_call: the normalised output for result["structured_response"];
\* a mapping is a sequence of <<key, value>> pairs
run_agent_call(structured) ==
    IF structured.type = "BaseModel"
    THEN [type |-> "dict", items |-> structured.items, value |-> ""]
    ELSE IF structured.type = "dict" THEN structured
    ELSE [type |-> "str", items |-> <<>>, value |-> PyStr(structured)]

\* the embed ask builds from the output
AskResponse(output) ==
    [content |-> None,
     embed |-> IF output.type = "dict"
               THEN [title |-> "Ha-chan's Response", description |-> None,
                     fields |-> [k \in 1..Len(output.items) |->
                                   <<Capitalize(output.items[k][1]),
                                     output.items[k][2]>>]]
               ELSE [title |-> "Ha-chan's Response",
                     description |-> PyStr(output), fields |-> <<>>],
     file |-> NoFile,
     ephemeral |-> FALSE]

\* await asyncio.to_thread(fn): who holds the event loop's thread while fn
\* runs; fn runs in a worker thread, the loop's thread stays free
\* the call made on the event loop itself, which it holds until the return
RunOnLoop(i) == i

\* asyncio.to_thread: the call runs on a worker thread, the loop stays free
to_thread(i) == 0

(***************************************************************************)
(* The invocations.  A frame is the state of one command coroutine:        *)
(*   pc: received -> acknowledged -> scanning -> reporting -> responded    *)
(*       (find-collabs), received -> acknowledged -> offloaded ->          *)
(*       responded (ha-chat), or raised when an exception ends it.         *)
(***************************************************************************)

\* the local `output` of ask before the call of the agent has returned
Unbound == [type |-> "unbound", items |-> <<>>, value |-> ""]

Frame(cmd, args, user, now) ==
    [cmd |-> cmd, args |-> args, user |-> user, now |-> now,
     pc |-> "received", exc |-> None, sent |-> <<>>,
     target_categories |-> <<>>, after_dt |-> 0, c |-> 0, h |-> 0,
     cat_header_added |-> FALSE, lines |-> <<>>, total_hits |-> 0,
     stopped |-> FALSE, worker |-> "idle", output |-> Unbound]

\* the frame positioned on the first channel to scan, or ready to report
StartScan(f, g, targets, after_dt) ==
    LET first == Seek(g, targets, 1, 1)
    IN  [f EXCEPT !.target_categories = targets, !.after_dt = after_dt,
                  !.c = first[1], !.h = first[2],
                  !.pc = IF first = <<0, 0>> THEN "reporting" ELSE "scanning"]

\* find_collabs from the guild check to the first history request: g is the
\* guild (not read when no_guild: the interaction comes from outside a server)
Resolve(f, no_guild, g) ==
    LET window == TimeWindow(f.now, f.args.days)
    IN  IF no_guild THEN Send(f, Message(NoGuildText, TRUE))
        ELSE IF Strip(f.args.categories) # ""
        THEN CHOOSE r \in
                 {IF parsed.exc # None THEN Raise(f, parsed.exc)
                  ELSE IF Len(parsed.out) = 0
                  THEN Send(f, Message(NoCategoryText, TRUE))
                  ELSE IF window.exc # None THEN Raise(f, window.exc)
                  ELSE StartScan(f, g, parsed.out, window.value) :
                     parsed \in {parse_category_spec(g, f.args.categories)}} :
                 TRUE
        ELSE IF window.exc # None THEN Raise(f, window.exc)
        ELSE StartScan(f, g, [k \in 1..Len(g.categories) |-> k], window.value)

\* the frame after the loop body for the current channel, moved to the next
\* channel of the two loops
Advance(f, f2, g) ==
    LET nxt == IF f2.stopped THEN <<0, 0>>
               ELSE Seek(g, f.target_categories, f.c, f.h + 1)
    IN  [f2 EXCEPT !.c = nxt[1], !.h = nxt[2],
                   !.cat_header_added = IF nxt[1] = f.c THEN @ ELSE FALSE,
                   !.pc = IF nxt = <<0, 0>> THEN "reporting" ELSE "scanning"]

\* find_collabs after the loops: the follow-up
Report(f) ==
    IF f.total_hits = 0 THEN Send(f, Message(NoPingsText, TRUE))
    ELSE Send(f, ReportResponse(f, chunk_lines_into_fields(f.lines, "Results")))

(***************************************************************************)
(* The guilds and the requests the model is run on                         *)
(***************************************************************************)

\* the bounds of the model
MaxChunkLines == 3
MaxTokens == 3
NumInvocations == 2
WideCategories == 21
DeepThreads == 75

\* the invocation time, in days from datetime.min (2026-11-05)
Clock == {739925}
Now == CHOOSE t \in Clock : TRUE

Invoker == [id |-> "900000000000000001"]
Other == [id |-> "900000000000000002"]

\* the numeral s padded with zeros to `width` digits
Pad(s, width) == Repeat("0", width - Len(s)) \o s

\* an 18-digit identifier
Snowflake(kind, n) == kind \o Pad(ToStr(n), 14)

\* message k of channel or thread `no`: how it mentions the invoker
\* ("structured", "raw", "nick", or not at all), `age` days old
Msg(no, k, how, age) ==
    [id |-> Snowflake("7000", no * 1000 + k),
     created |-> Now - age,
     mentions |-> IF how = "structured" THEN {Invoker.id, Other.id}
                  ELSE IF how = "other" THEN {Other.id} ELSE {},
     content |-> IF how = "raw" THEN "ping <@" \o Invoker.id \o "> please"
                 ELSE IF how = "nick" THEN "<@!" \o Invoker.id \o ">"
                 ELSE IF how = "other" THEN "hello <@" \o Other.id \o ">"
                 ELSE "hello"]

\* a history of the given kinds of message, all `age` days old
Msgs(no, hows, age) == [k \in 1..Len(hows) |-> Msg(no, k, hows[k], age)]

Thread(no, locked, history, error) ==
    [id |-> Snowflake("3000", no), locked |-> locked, history |-> history,
     error |-> error, error_page |-> 1]

Channel(no, history, error, error_page, threads) ==
    [id |-> Snowflake("2000", no), history |-> history, error |-> error,
     error_page |-> error_page, threads |-> threads]

Category(no, name, text_channels) ==
    [id |-> Snowflake("1000", no), name |-> name, text_channels |-> text_channels]

FourHits == <<"structured", "raw", "none", "nick", "other", "structured">>

\* three categories, two of them with names equal up to case, one empty
SmallGuild ==
    [id |-> Snowflake("5000", 1),
     others |-> {Snowflake("4000", 1)},
     categories |-> <<
        Category(1, "Dev", <<
            Channel(1, Msgs(1, <<"structured", "none">>, 1)
                         \o Msgs(11, <<"raw">>, 10), None, 1,
                    <<Thread(1, FALSE, Msgs(21, <<"nick">>, 1), None),
                      Thread(2, TRUE, Msgs(22, <<"structured">>, 1), None),
                      Thread(3, FALSE, Msgs(23, <<"other", "none">>, 1), None),
                      Thread(4, FALSE, Msgs(24, <<"raw">>, 1), "Forbidden")>>),
            Channel(2, Msgs(2, <<"none", "other">>, 1), None, 1,
                    <<Thread(5, FALSE, Msgs(25, <<"structured">>, 1), None)>>)>>),
        Category(2, "General", <<
            Channel(3, Msgs(3, FourHits, 2), None, 1,
                    <<Thread(6, FALSE, Msgs(26, FourHits, 2), None)>>)>>),
        Category(3, "dev", <<>>)>>]

\* a history of n messages, every 40th of which mentions the invoker
LongHistory(no, n) ==
    [k \in 1..n |-> Msg(no, k, IF k % 40 = 0 THEN "raw" ELSE "none", 1)]

\* channels whose history fails: at the first request, and at the second
\* request after a full page was yielded
FailingGuild ==
    [id |-> Snowflake("5000", 2),
     others |-> {},
     categories |-> <<
        Category(4, "Ops", <<
            Channel(4, Msgs(4, <<"structured">>, 1), "Forbidden", 1, <<>>),
            Channel(5, LongHistory(5, PageSize + 30), "HTTPException", 2, <<>>),
            Channel(6, Msgs(6, <<"nick">>, 1), None, 1, <<>>)>>),
        Category(5, "Quiet", <<
            Channel(7, Msgs(7, <<"none">>, 1), "HTTPException", 1, <<>>)>>)>>]

\* many categories of one channel with one hit each
WideGuild ==
    [id |-> Snowflake("5000", 3),
     others |-> {},
     categories |-> [k \in 1..WideCategories |->
        Category(100 + k, "Team " \o ToStr(k),
                 <<Channel(100 + k, Msgs(100 + k, <<"structured">>, 1),
                           None, 1, <<>>)>>)]]

\* one channel with many threads, each with hits
DeepGuild ==
    [id |-> Snowflake("5000", 4),
     others |-> {},
     categories |-> <<
        Category(6, "Collabs", <<
            Channel(8, Msgs(8, <<"raw">>, 1), None, 1,
                    [k \in 1..DeepThreads |->
                       Thread(100 + k, FALSE, Msgs(200 + k, FourHits, 1), None)]),
            Channel(9, Msgs(9, <<"raw">>, 1), None, 1, <<>>)>>)>>]

EmptyGuild == [id |-> Snowflake("5000", 5), others |-> {}, categories |-> <<>>]

Guilds == <<SmallGuild, FailingGuild, WideGuild, DeepGuild, EmptyGuild>>

\* the arguments of find-collabs and of ha-chat
FindArgs(categories, days, per_channel_limit, include_threads) ==
    [categories |-> categories, days |-> days,
     per_channel_limit |-> per_channel_limit, include_threads |-> include_threads]

AskArgs(structured) == [message |-> "who is A?", structured |-> structured]

\* what the agent may give as result["structured_response"]
Contact ==
    [type |-> "BaseModel", value |-> "name='A' email='a@x.com' phone='123'",
     items |-> <<<<"name", "A">>, <<"email", "a@x.com">>, <<"phone", "123">>>>]
Mapping ==
    [type |-> "dict", value |-> "", items |-> <<<<"name", "B">>, <<"eMail", "">>>>]
Missing == [type |-> "NoneType", value |-> "", items |-> <<>>]
Text == [type |-> "str", value |-> "no contact found", items |-> <<>>]

Request(g, cmd, args) == [guild |-> g, cmd |-> cmd, args |-> args]

\* the categories argument: blank, made of separators only, names and
\* identifiers in either order, a name no category has, a digit that is no
\* decimal digit
CategorySpecs ==
    {"", "  ", " , ,", "dev", "General, " \o Snowflake("1000", 1), "nomatch",
     "'", "100000000000000002,Dev"}

\* guild 0: no guild
SmallRequests ==
    {Request(g, "find-collabs", FindArgs(c, d, l, t)) :
        g \in {0, 1}, c \in CategorySpecs, d \in {7, 30, -1, 1000000},
        l \in {200, 1, 0}, t \in BOOLEAN}

BigRequests ==
    {Request(g, "find-collabs", FindArgs("", 7, l, t)) :
        g \in {2, 3, 4, 5}, l \in {200, 1}, t \in BOOLEAN}

AskRequests ==
    {Request(g, "ha-chat", AskArgs(x)) :
        g \in {0, 1}, x \in {Contact, Mapping, Missing, Text}}

Requests == SmallRequests \cup BigRequests \cup AskRequests

\* the requests of the runs with concurrent invocations, all in guild 1
LoopRequests ==
    {Request(1, "find-collabs", FindArgs(c, 7, 200, TRUE)) : c \in {"", "nomatch"}}
      \cup {Request(1, "ha-chat", AskArgs(Contact))}

NoCall == [fn |-> None, args |-> <<>>, pc |-> "returned", ret |-> <<>>]

(***************************************************************************)
(* The commands, one action per step of a coroutine between two awaits     *)
(***************************************************************************)

\* the guild of the interactions (only read when there is one)
TheGuild == Guilds[guild]

\* await interaction.response.defer(...)
Defer(i) ==
    /\ loop = 0
    /\ inv[i].pc = "received"
    /\ inv' = [inv EXCEPT ![i].pc = "acknowledged"]
    /\ UNCHANGED <<call, guild, loop, fetched>>

\* find_collabs: the guild check, the categories, the time window
FindResolve(i) ==
    /\ loop = 0
    /\ inv[i].cmd = "find-collabs"
    /\ inv[i].pc = "acknowledged"
    /\ inv' = [inv EXCEPT ![i] = Resolve(@, guild = 0, TheGuild)]
    /\ UNCHANGED <<call, guild, loop, fetched>>

\* find_collabs: one turn of the loop over the channels
FindScan(i) ==
    /\ loop = 0
    /\ inv[i].cmd = "find-collabs"
    /\ inv[i].pc = "scanning"
    /\ LET f == inv[i]
           cat == TheGuild.categories[f.target_categories[f.c]]
       IN  \E r \in {ScanBody(i, f, TheGuild, cat, cat.text_channels[f.h])} :
              /\ inv' = [inv EXCEPT ![i] = Advance(f, r.f, TheGuild)]
              /\ fetched' = fetched \cup SeqRange(r.requests)
    /\ UNCHANGED <<call, guild, loop>>

\* find_collabs: the follow-up after the loops
FindReport(i) ==
    /\ loop = 0
    /\ inv[i].cmd = "find-collabs"
    /\ inv[i].pc = "reporting"
    /\ inv' = [inv EXCEPT ![i] = Report(@)]
    /\ UNCHANGED <<call, guild, loop, fetched>>

\* ask: output = await asyncio.to_thread(run_agent_call), the call starts
AskOffload(i) ==
    /\ loop = 0
    /\ inv[i].cmd = "ha-chat"
    /\ inv[i].pc = "acknowledged"
    /\ inv' = [inv EXCEPT ![i].pc = "offloaded", ![i].worker = "running"]
    /\ loop' = to_thread(i)
    /\ UNCHANGED <<call, guild, fetched>>

\* run_agent_call returns, on the thread that runs it
AgentReturn(i) ==
    /\ inv[i].worker = "running"
    /\ inv' = [inv EXCEPT ![i].worker = "done",
                          ![i].output = run_agent_call(inv[i].args.structured)]
    /\ loop' = IF loop = i THEN 0 ELSE loop
    /\ UNCHANGED <<call, guild, fetched>>

\* ask: the embed and the follow-up
AskRespond(i) ==
    /\ loop = 0
    /\ inv[i].pc = "offloaded"
    /\ inv[i].worker = "done"
    /\ inv' = [inv EXCEPT ![i] = Send(@, AskResponse(@.output))]
    /\ UNCHANGED <<call, guild, loop, fetched>>

\* the steps of invocation i that the event loop runs
LoopStep(i) ==
    \/ Defer(i)
    \/ FindResolve(i)
    \/ FindScan(i)
    \/ FindReport(i)
    \/ AskOffload(i)
    \/ AskRespond(i)

Next ==
    \/ \E i \in DOMAIN inv : Defer(i)
    \/ \E i \in DOMAIN inv : FindResolve(i)
    \/ \E i \in DOMAIN inv : FindScan(i)
    \/ \E i \in DOMAIN inv : FindReport(i)
    \/ \E i \in DOMAIN inv : AskOffload(i)
    \/ \E i \in DOMAIN inv : AgentReturn(i)
    \/ \E i \in DOMAIN inv : AskRespond(i)

\* one invocation of either command
Init ==
    /\ call = NoCall
    /\ loop = 0
    /\ fetched = {}
    /\ \E r \in Requests :
          /\ guild = r.guild
          /\ inv = [i \in {1} |-> Frame(r.cmd, r.args, Invoker, Now)]

Spec == Init /\ [][Next]_vars

\* concurrent invocations in one guild
InitLoop ==
    /\ call = NoCall
    /\ loop = 0
    /\ fetched = {}
    /\ guild = 1
    /\ \E rs \in [1..NumInvocations -> LoopRequests] :
          inv = [i \in 1..NumInvocations |->
                   Frame(rs[i].cmd, rs[i].args, Invoker, Now)]

\* the event loop runs every step that is ready
Fairness ==
    \A i \in 1..NumInvocations : WF_vars(LoopStep(i))

SpecLoop == InitLoop /\ [][Next]_vars /\ Fairness

(***************************************************************************)
(* Direct calls of the helpers                                             *)
(***************************************************************************)

\* lines around the field limit, blank lines, lines to trim
LineChoices ==
    {"", "  ", "a", " b c\t", Repeat("x", 511), Repeat("y", 512),
     Repeat("z", EMBED_FIELD_LIMIT - 1), Repeat("w", EMBED_FIELD_LIMIT),
     " " \o Repeat("v", EMBED_FIELD_LIMIT + 1)}

ChunkInputs == UNION {[1..n -> LineChoices] : n \in 0..MaxChunkLines}

InitChunk ==
    /\ guild = 0
    /\ inv = <<>>
    /\ loop = 0
    /\ fetched = {}
    /\ \E lines \in ChunkInputs :
          call = [fn |-> "chunk_lines_into_fields",
                  args |-> [lines |-> lines, field_name_prefix |-> "Summary"],
                  pc |-> "called", ret |-> <<>>]

ChunkReturn ==
    /\ call.fn = "chunk_lines_into_fields"
    /\ call.pc = "called"
    /\ call' = [call EXCEPT
                  !.pc = "returned",
                  !.ret = chunk_lines_into_fields(call.args.lines,
                                                  call.args.field_name_prefix)]
    /\ UNCHANGED <<guild, inv, loop, fetched>>

NextChunk == ChunkReturn

SpecChunk == InitChunk /\ [][NextChunk]_vars

\* two categories named alike, a third one, a channel that is no category
TwinGuild ==
    [id |-> Snowflake("5000", 6),
     others |-> {Snowflake("4000", 2)},
     categories |-> <<Category(1, "General", <<>>), Category(2, "Dev", <<>>),
                      Category(3, "general", <<>>)>>]

\* tokens: names in any case, identifiers (with leading zeros, of a channel
\* that is no category, of no channel), a digit that is no decimal digit,
\* blank tokens
TokenChoices ==
    {"dev", " General ", "GENERAL", Snowflake("1000", 2), "00" \o Snowflake("1000", 1),
     Snowflake("4000", 2), "12", "'", " ", ""}

SpecStrings ==
    {Join(",", toks) : toks \in UNION {[1..n -> TokenChoices] : n \in 0..MaxTokens}}

InitParse ==
    /\ inv = <<>>
    /\ loop = 0
    /\ fetched = {}
    /\ guild = 0
    /\ \E spec \in SpecStrings :
          call = [fn |-> "_parse_category_spec",
                  args |-> [guild |-> TwinGuild, spec |-> spec],
                  pc |-> "called", ret |-> <<>>]

ParseReturn ==
    /\ call.fn = "_parse_category_spec"
    /\ call.pc = "called"
    /\ call' = [call EXCEPT
                  !.pc = "returned",
                  !.ret = parse_category_spec(call.args.guild, call.args.spec)]
    /\ UNCHANGED <<guild, inv, loop, fetched>>

NextParse == ParseReturn

SpecParse == InitParse /\ [][NextParse]_vars

(***************************************************************************)
(* Properties                                                              *)
(***************************************************************************)

ChunkReturned == call.fn = "chunk_lines_into_fields" /\ call.pc = "returned"

\* the values of the (name, value) pairs, in order
Values(fields) == [k \in 1..Len(fields) |-> fields[k][2]]

\* the trimmed non-blank lines, in order
Kept(lines) == SelectSeq([k \in 1..Len(lines) |-> Strip(lines[k])], LAMBDA l : l # "")

\* C1: for every input, lines longer than the limit included, every value
\* that chunk_lines_into_fields returns has at most 1024 characters
C1_ValuesWithinLimit ==
    ChunkReturned =>
        \A k \in 1..Len(call.ret) : Len(call.ret[k][2]) <= EMBED_FIELD_LIMIT

\* C2: the values of the chunks, joined by a newline in chunk order, are the
\* trimmed non-blank input lines joined by a newline: nothing lost, doubled,
\* reordered, and no empty chunk added
C2_JoinReproducesLines ==
    ChunkReturned =>
        /\ Join("\n", Values(call.ret)) = Join("\n", Kept(call.args.lines))
        /\ \A k \in 1..Len(call.ret) : call.ret[k][2] # ""

Finds == {i \in DOMAIN inv : inv[i].cmd = "find-collabs"}
Asks == {i \in DOMAIN inv : inv[i].cmd = "ha-chat"}

\* invocation i has sent the report embed of find-collabs
Reported(i) ==
    /\ inv[i].pc = "responded"
    /\ Len(inv[i].sent) = 1
    /\ inv[i].sent[1].embed.title = "Mentions Found"

FieldNames(fields) == [k \in 1..Len(fields) |-> fields[k][1]]

ParseReturned == call.fn = "_parse_category_spec" /\ call.pc = "returned"

\* token p is a number and names category c of g by its identifier
IdToken(g, p, c) ==
    /\ IsDigit(p)
    /\ \A k \in 1..Len(p) : IsDecimalChar(CharAt(p, k))
    /\ StripZeros(p) = g.categories[c].id

\* token p is no number and is the name of category c of g, whatever the case
NameToken(g, p, c) == ~IsDigit(p) /\ Lower(p) = Lower(g.categories[c].name)

\* the position of the first token of parts that satisfies T(_, c)
First(T(_, _), parts, c) ==
    CHOOSE k \in 1..Len(parts) : T(parts[k], c) /\ \A j \in 1..(k - 1) : ~T(parts[j], c)

\* the order of the list `out` resolved from `spec` in guild g: no category
\* twice, those matched by identifier before those matched by name only, each
\* group in the order of the first matching tokens
ResolvedInOrder(g, spec, out) ==
    LET parts == Parts(spec)
        ById(c) == \E k \in 1..Len(parts) : IdToken(g, parts[k], c)
        IdTok(q, c) == IdToken(g, q, c)
        NameTok(q, c) == NameToken(g, q, c)
    IN  /\ \A a, b \in 1..Len(out) : a # b => out[a] # out[b]
        /\ \A a \in 1..Len(out) :
              ById(out[a]) \/ \E k \in 1..Len(parts) : NameToken(g, parts[k], out[a])
        /\ \A a, b \in 1..Len(out) : a < b =>
              /\ ById(out[a]) \/ ~ById(out[b])
              /\ ById(out[a]) /\ ById(out[b]) =>
                    First(IdTok, parts, out[a]) < First(IdTok, parts, out[b])
              /\ ~ById(out[a]) /\ ~ById(out[b]) =>
                    First(NameTok, parts, out[a]) <= First(NameTok, parts, out[b])

\* C4: for any spec string and any guild _parse_category_spec returns a list
\* without a category twice, the categories matched by a numeric token first,
\* each group in the order of the first matching tokens
C4_ResolvedInOrder ==
    ParseReturned =>
        /\ call.ret.exc = None
        /\ ResolvedInOrder(call.args.guild, call.args.spec, call.ret.out)

\* the text channels of the guild, each with its category
AllChannels ==
    IF guild = 0 THEN {}
    ELSE UNION {{TheGuild.categories[c].text_channels[h] :
                    h \in 1..Len(TheGuild.categories[c].text_channels)} :
                c \in 1..Len(TheGuild.categories)}

\* invocation i has requested the history of the channel or thread
Fetched(i, kind, source) ==
    \E q \in fetched : q.inv = i /\ q.kind = kind /\ q.id = source.id

\* the history request of invocation i for channel ch raises
ChannelRaises(i, ch) == Raises(ch, inv[i].args.per_channel_limit, inv[i].after_dt)

\* the hits the scan of invocation i gets from channel ch
ChannelHits(i, ch) ==
    search_channel_for_mentions(ch, inv[i].user, inv[i].after_dt,
                                inv[i].args.per_channel_limit)

\* the hits the scan of invocation i gets from the threads of channel ch
ThreadHitCount(i, ch) ==
    SumLen(search_active_threads_for_mentions(
               ch, inv[i].user, inv[i].after_dt,
               Min(inv[i].args.per_channel_limit, 100)))

RECURSIVE SumOver(_, _)
\* the sum of f[x] over the finite set S
SumOver(f, S) ==
    IF S = {} THEN 0
    ELSE LET x == CHOOSE y \in S : TRUE IN f[x] + SumOver(f, S \ {x})

\* the start of the line the report has for a channel, and for a thread
ChannelLineStart(ch) == "~^$ <#" \o ch.id \o ">"
ThreadLineStart(th) == "   ~+= ?|{} <#" \o th.id \o ">"

HasLine(i, start) == \E k \in 1..Len(inv[i].lines) : StartsWith(inv[i].lines[k], start)

\* C5: a channel whose history retrieval raises, before the first message or
\* after some messages, contributes no hit to the report nor to total_hits,
\* and the scan goes on with the other channels
C5_FailedChannelContributesNothing ==
    \A i \in Finds :
        LET scanned == {ch \in AllChannels : Fetched(i, "channel", ch)}
            sound == {ch \in scanned : ~ChannelRaises(i, ch)}
            count == [ch \in sound |->
                        IF Len(ChannelHits(i, ch)) = 0 THEN 0
                        ELSE Len(ChannelHits(i, ch))
                               + (IF inv[i].args.include_threads
                                  THEN ThreadHitCount(i, ch) ELSE 0)]
        IN  /\ \A ch \in scanned \ sound : ~HasLine(i, ChannelLineStart(ch))
            /\ inv[i].total_hits = SumOver(count, sound)
            /\ inv[i].exc \notin {"Forbidden", "HTTPException"}

\* the invocation is over
Terminated(i) == inv[i].pc \in {"responded", "raised"}

\* C6: an invocation is acknowledged before it does anything else, sends
\* exactly one follow-up on every path, and does nothing after it
C6_ExactlyOneFollowUp ==
    \A i \in DOMAIN inv :
        /\ inv[i].pc = "received" =>
              Len(inv[i].sent) = 0 /\ ~\E q \in fetched : q.inv = i
        /\ Len(inv[i].sent) <= 1
        /\ Terminated(i) => Len(inv[i].sent) = 1
        /\ Terminated(i) => ~ENABLED (LoopStep(i) \/ AgentReturn(i))

\* no token of the categories argument names a category of the guild
ResolvesToNothing(i) ==
    LET parts == Parts(inv[i].args.categories)
    IN  \A k \in 1..Len(parts) : \A c \in 1..Len(TheGuild.categories) :
            ~IdToken(TheGuild, parts[k], c) /\ ~NameToken(TheGuild, parts[k], c)

\* the follow-up of invocation i is a plain message with this text
Replied(i, text) ==
    /\ Len(inv[i].sent) = 1
    /\ inv[i].sent[1].content = text

\* C7: without a guild, or with a non-blank categories argument that
\* resolves to no category, find-collabs replies with an error and fetches no
\* history; with a blank argument every category of the guild is scanned and
\* no error is reported
C7_UnresolvedCategoriesReported ==
    \A i \in Finds : inv[i].pc \notin {"received", "acknowledged"} =>
        /\ guild = 0 =>
              Replied(i, NoGuildText) /\ ~\E q \in fetched : q.inv = i
        /\ guild # 0 /\ Strip(inv[i].args.categories) # "" /\ ResolvesToNothing(i) =>
              Replied(i, NoCategoryText) /\ ~\E q \in fetched : q.inv = i
        /\ guild # 0 /\ Strip(inv[i].args.categories) = "" =>
              /\ ~Replied(i, NoCategoryText) /\ ~Replied(i, NoGuildText)
              /\ Terminated(i) => \A ch \in AllChannels : Fetched(i, "channel", ch)

\* C9: when the scan stops at MAX_LINES and the truncation line is added to
\* the results, the follow-up carries the mentions_report.txt attachment
C9_TruncationHasAttachment ==
    \A i \in Finds :
        /\ inv[i].pc = "responded"
        /\ inv[i].stopped
        /\ \E k \in 1..Len(inv[i].lines) : inv[i].lines[k] = TruncatedLine
        => /\ Len(inv[i].sent) = 1
           /\ inv[i].sent[1].file # NoFile
           /\ inv[i].sent[1].file.filename = "mentions_report.txt"

\* the threads of channel ch
ThreadsOf(ch) == {ch.threads[k] : k \in 1..Len(ch.threads)}

\* the hits the scan of invocation i finds in thread th
ThreadHitsOf(i, th) ==
    ThreadHits(th, inv[i].user, inv[i].after_dt,
               Min(inv[i].args.per_channel_limit, 100))

\* C10: the history of a thread is fetched only if include_threads is true,
\* the thread is not locked and its parent channel returned at least one hit;
\* the threads of a channel without hits add nothing to total_hits nor to the
\* report, and a thread is in the report only if it had at least one hit
C10_ThreadsOnlyUnderHitChannels ==
    \A i \in Finds :
        LET scanned == {ch \in AllChannels : Fetched(i, "channel", ch)}
            count == [ch \in scanned |->
                        IF Len(ChannelHits(i, ch)) = 0 THEN 0
                        ELSE Len(ChannelHits(i, ch))
                               + (IF inv[i].args.include_threads
                                  THEN ThreadHitCount(i, ch) ELSE 0)]
        IN  /\ \A ch \in AllChannels : \A th \in ThreadsOf(ch) :
                  /\ Fetched(i, "thread", th) =>
                        /\ inv[i].args.include_threads
                        /\ ~th.locked
                        /\ Fetched(i, "channel", ch)
                        /\ Len(ChannelHits(i, ch)) > 0
                  /\ HasLine(i, ThreadLineStart(th)) =>
                        /\ Fetched(i, "thread", th)
                        /\ Len(ThreadHitsOf(i, th)) > 0
            /\ inv[i].total_hits = SumOver(count, scanned)

\* a scan with include_threads has passed a channel without hits whose
\* threads mention the user, and has fetched and reported a thread of a
\* channel with hits next to a locked thread and a thread without hits
C10_Witness ==
    \E i \in Finds :
        /\ inv[i].args.include_threads
        /\ inv[i].pc = "responded"
        /\ \E ch \in AllChannels :
              /\ Fetched(i, "channel", ch)
              /\ Len(ChannelHits(i, ch)) = 0
              /\ \E th \in ThreadsOf(ch) :
                    ~th.locked /\ Len(ThreadHitsOf(i, th)) > 0
        /\ \E ch \in AllChannels :
              /\ \E th \in ThreadsOf(ch) :
                    Fetched(i, "thread", th) /\ HasLine(i, ThreadLineStart(th))
              /\ \E th \in ThreadsOf(ch) : th.locked
              /\ \E th \in ThreadsOf(ch) :
                    Fetched(i, "thread", th) /\ ~HasLine(i, ThreadLineStart(th))

\* invocation j has a step for the event loop to run
Ready(j) ==
    \/ inv[j].pc \in {"received", "acknowledged", "scanning", "reporting"}
    \/ inv[j].pc = "offloaded" /\ inv[j].worker = "done"

\* C8: while the agent call of a ha-chat invocation is in progress the event
\* loop runs the steps of every other invocation, a find-collabs invocation is
\* answered whether or not that call ever returns, and the ha-chat invocation
\* sends its response once its agent call has returned
C8_LoopStaysResponsive ==
    /\ [](\A i \in DOMAIN inv : \A j \in DOMAIN inv \ {i} :
             inv[i].worker = "running" /\ Ready(j) => ENABLED LoopStep(j))
    /\ \A j \in 1..NumInvocations :
          (inv[j].cmd = "find-collabs") ~> (inv[j].pc = "responded")
    /\ \A i \in 1..NumInvocations :
          (inv[i].worker = "done") ~> (inv[i].pc = "responded" /\ Len(inv[i].sent) = 1)

\* another invocation has been acknowledged, processed and answered while
\* the agent call of invocation 1 is still in progress
C8_Witness ==
    /\ inv[1].cmd = "ha-chat"
    /\ inv[1].worker = "running"
    /\ \E j \in DOMAIN inv \ {1} :
          inv[j].pc = "responded" /\ Len(inv[j].sent) = 1

============================================================================
